---- MODULE Spec2Model ----
(***************************************************************************)
(* Model of the floor-plan graph builders svg_to_graph.py ("basic"),       *)
(* svg_to_graph_improved.py ("improved") and svg_to_graph_final.py          *)
(* ("final"): candidate sampling, deduplication, obstacle filtering, KNN   *)
(* edge synthesis, obstacle pruning, label map, nearest-node and            *)
(* shortest-path queries.  Coordinates are integers of an abstract pixel   *)
(* lattice; distances are compared through their squares, which is exact   *)
(* for math.hypot on these values.                                         *)
(***************************************************************************)
EXTENDS Integers, Sequences, FiniteSets, TLC

VARIABLES variant, HAVE_KDTREE, HAVE_SHAPELY, HAVE_NX,
          width, height, texts, rects, cfg,
          pc, combined, pts, obstacle_union, nodes, edges, edges_pruned,
          room_map, query

vars == <<variant, HAVE_KDTREE, HAVE_SHAPELY, HAVE_NX, width, height, texts,
          rects, cfg, pc, combined, pts, obstacle_union, nodes, edges,
          edges_pruned, room_map, query>>

env == <<variant, HAVE_KDTREE, HAVE_SHAPELY, HAVE_NX, width, height, texts,
         rects, cfg>>

----------------------------------------------------------------------------
(* Bounds of the model                                                      *)

MaxW == 2
\* the numbers of labelled points of a source
TextCounts == 0..2

\* the canvas widths on which the k-d tree is available
KDWidths == {1}

\* the canvas heights; the higher canvases carry no labelled point
Heights == {1, 2}

Labels == {"A", "B"}
None == "None"

SpacingSet == {0, 1, 2}
MarginSet == {0, 1}
MinDistSet == {-1, 0, 1, 2}
KSet == {-1, 0, 1, 2, 3}
BufferSet == {0, 1, 2}

----------------------------------------------------------------------------
(* Arithmetic helpers                                                       *)

Abs(n) == IF n < 0 THEN -n ELSE n

Max2(a, b) == IF a >= b THEN a ELSE b

Max3(a, b, c) == Max2(a, Max2(b, c))

Sq(n) == n * n

\* math.hypot(dx, dy) ** 2, exact on the integer lattice
Hypot2(dx, dy) == Sq(dx) + Sq(dy)

\* math.hypot(dx, dy) < t for an integer threshold t (never true for t <= 0)
HypotLess(dx, dy, t) == t > 0 /\ Hypot2(dx, dy) < Sq(t)

Dist2(p, q) == Hypot2(p.x - q.x, p.y - q.y)

----------------------------------------------------------------------------
(* PointSampler: sample_grid                                                *)

\* loop condition "v < limit" (improved) or "v < limit + 1e-9" (final)
GridBelow(v, limit, inclusive) == IF inclusive THEN v <= limit ELSE v < limit

\* the values taken by one loop variable: margin, margin+spacing, ...
RECURSIVE GridAxis(_, _, _, _)
GridAxis(v, limit, spacing, inclusive) ==
    IF GridBelow(v, limit, inclusive)
    THEN <<v>> \o GridAxis(v + spacing, limit, spacing, inclusive)
    ELSE <<>>

\* a while loop whose variable never grows runs forever once entered
GridDiverges(w, h, spacing, margin, inclusive) ==
    spacing <= 0 /\ GridBelow(margin, h - margin, inclusive)

RECURSIVE GridRows(_, _, _)
GridRows(ys, xs, i) ==
    IF i > Len(ys) THEN <<>>
    ELSE [j \in 1..Len(xs) |-> [x |-> xs[j], y |-> ys[i]]] \o GridRows(ys, xs, i + 1)

sample_grid(w, h, spacing, margin, inclusive) ==
    GridRows(GridAxis(margin, h - margin, spacing, inclusive),
             GridAxis(margin, w - margin, spacing, inclusive), 1)

----------------------------------------------------------------------------
(* NodeDeduplicator: dedupe / dedupe_points                                 *)

\* the comparison with "<=" in place of "<"
dedupeSkipLE(kept, p, min_dist) ==
    \E i \in DOMAIN kept :
        Hypot2(kept[i].x - p.x, kept[i].y - p.y) <= Sq(min_dist)

\* a comparison with the last kept point only
dedupeSkipLast(kept, p, min_dist) ==
    /\ kept # <<>>
    /\ HypotLess(kept[Len(kept)].x - p.x, kept[Len(kept)].y - p.y, min_dist)

\* the inner loop over kept: some kept point is closer than min_dist
dedupeSkip(kept, p, min_dist) ==
    \E i \in DOMAIN kept : HypotLess(kept[i].x - p.x, kept[i].y - p.y, min_dist)

RECURSIVE dedupeFrom(_, _, _, _)
dedupeFrom(points, i, kept, min_dist) ==
    IF i > Len(points) THEN kept
    ELSE dedupeFrom(points, i + 1,
                    IF dedupeSkip(kept, points[i], min_dist) THEN kept
                    ELSE Append(kept, points[i]),
                    min_dist)

dedupe(points, min_dist) == dedupeFrom(points, 1, <<>>, min_dist)

----------------------------------------------------------------------------
(* ObstacleIndex: shapely predicates on axis-aligned boxes, exact on the   *)
(* lattice.  buffer(r) of a box is the set of points within distance r.    *)

\* box(rx, ry, rx+rw, ry+rh)
Box(r) == [x0 |-> r.x, y0 |-> r.y, x1 |-> r.x + r.w, y1 |-> r.y + r.h]

\* squared distance from point p to the closed box b
PointBoxD2(p, b) ==
    Hypot2(Max3(b.x0 - p.x, 0, p.x - b.x1), Max3(b.y0 - p.y, 0, p.y - b.y1))

\* Point(p).within(b.buffer(r)): p lies in the interior of the buffered box
PointWithinBox(p, b, r) ==
    IF r > 0 THEN PointBoxD2(p, b) < Sq(r)
    ELSE b.x0 < p.x /\ p.x < b.x1 /\ b.y0 < p.y /\ p.y < b.y1

\* Point(p).within(union.buffer(r))
PointWithin(p, boxes, r) == \E b \in boxes : PointWithinBox(p, b, r)

Corners(b) == { [x |-> b.x0, y |-> b.y0], [x |-> b.x1, y |-> b.y0],
                [x |-> b.x0, y |-> b.y1], [x |-> b.x1, y |-> b.y1] }

Cross(a, b, c) == (b.x - a.x) * (c.y - a.y) - (b.y - a.y) * (c.x - a.x)

Min2(a, b) == IF a <= b THEN a ELSE b

\* LineString([a, b]).intersects(box): separating axes x, y and the normal of ab
SegIntersectsBox(a, b, bx) ==
    /\ Max2(a.x, b.x) >= bx.x0 /\ Min2(a.x, b.x) <= bx.x1
    /\ Max2(a.y, b.y) >= bx.y0 /\ Min2(a.y, b.y) <= bx.y1
    /\ ~(\A c \in Corners(bx) : Cross(a, b, c) > 0)
    /\ ~(\A c \in Corners(bx) : Cross(a, b, c) < 0)

\* squared distance from point c to segment ab is <= r^2
PointSegWithin(c, a, b, r) ==
    LET len2 == Dist2(a, b)
        t == (c.x - a.x) * (b.x - a.x) + (c.y - a.y) * (b.y - a.y)
    IN  IF len2 = 0 \/ t <= 0 THEN Dist2(c, a) <= Sq(r)
        ELSE IF t >= len2 THEN Dist2(c, b) <= Sq(r)
        ELSE Sq(Cross(a, b, c)) <= Sq(r) * len2

\* LineString([a, b]).intersects(box.buffer(r)), r >= 0
SegIntersectsBuffered(a, b, bx, r) ==
    \/ SegIntersectsBox(a, b, bx)
    \/ PointBoxD2(a, bx) <= Sq(r)
    \/ PointBoxD2(b, bx) <= Sq(r)
    \/ \E c \in Corners(bx) : PointSegWithin(c, a, b, r)

\* seg.intersects(union.buffer(r)) / any(seg.intersects(p.buffer(r)))
SegIntersects(a, b, boxes, r) == \E bx \in boxes : SegIntersectsBuffered(a, b, bx, r)

----------------------------------------------------------------------------
(* Node ids: the string "node<idx>" is held as idx; Python orders the      *)
(* strings lexicographically ("node10" < "node2").                          *)

\* "node<a>" < "node<b>" for 1 <= a, b < 100
IdLess(a, b) ==
    IF (a < 10) = (b < 10) THEN a < b
    ELSE IF a < 10 THEN a <= b \div 10
    ELSE a \div 10 < b

\* the pair as met, without sorting
UnsortedPair(a, b) == <<a, b>>

\* tuple(sorted((a, b)))
SortedPair(a, b) == IF IdLess(b, a) THEN <<b, a>> ELSE <<a, b>>

\* ids counted down from the number of points
MakeNodesCountedDown(points) ==
    [i \in 1..Len(points) |->
        [id |-> Len(points) + 1 - i, x |-> points[i].x, y |-> points[i].y,
         label |-> points[i].label]]

\* nodes.append({'id': f'node{idx}', ...}) for idx = 1, 2, ...
MakeNodes(points) ==
    [i \in 1..Len(points) |->
        [id |-> i, x |-> points[i].x, y |-> points[i].y, label |-> points[i].label]]

NodeIds(ns) == {ns[i].id : i \in DOMAIN ns}

----------------------------------------------------------------------------
(* ProximityGraphBuilder: connect_knn / build_edges / build_edges_from_nodes *)

\* (d, j) tuple order of dlist.sort()
DlistBefore(ns, i, a, b) ==
    \/ Dist2(ns[i], ns[a]) < Dist2(ns[i], ns[b])
    \/ Dist2(ns[i], ns[a]) = Dist2(ns[i], ns[b]) /\ a < b

\* len(dlist[:k]) for a list of n entries (a negative k drops from the end)
SliceLen(n, k) == IF k >= 0 THEN Min2(k, n) ELSE Max2(n + k, 0)

\* the j of dlist[:k] for node position i
NaiveNeighbors(ns, i, k) ==
    LET others == DOMAIN ns \ {i}
    IN  { j \in others :
            Cardinality({a \in others : DlistBefore(ns, i, a, j)})
                < SliceLen(Cardinality(others), k) }

\* the naive O(N^2) branch
NaiveEdges(ns, k) ==
    UNION { {SortedPair(ns[i].id, ns[j].id) : j \in NaiveNeighbors(ns, i, k)}
              : i \in DOMAIN ns }

\* tree.query(arr, k=kq)[1][i]: some kq nearest positions of node i, itself
\* included, ordered by distance; the order among equal distances is the
\* tree's.  idxs[i][1:] drops the first of them, "a == b" drops i itself.
KDNearestSets(ns, i, kq) ==
    { T \in SUBSET (DOMAIN ns) :
        /\ Cardinality(T) = kq
        /\ \A a \in T : \A b \in DOMAIN ns \ T :
              Dist2(ns[i], ns[a]) <= Dist2(ns[i], ns[b]) }

KDNeighborSets(ns, i, kq) ==
    UNION { { T \ {f, i} : f \in {g \in T : Dist2(ns[i], ns[g]) = 0} }
              : T \in KDNearestSets(ns, i, kq) }

\* the edge sets the KDTree branch can produce from nodes i..N
RECURSIVE KDEdgeSets(_, _, _)
KDEdgeSets(ns, i, kq) ==
    IF i > Len(ns) THEN {{}}
    ELSE LET rest == KDEdgeSets(ns, i + 1, kq)
         IN  UNION { { {SortedPair(ns[i].id, ns[j].id) : j \in S} \cup E : E \in rest }
                       : S \in KDNeighborSets(ns, i, kq) }

\* k passed to tree.query: min(k+1, N) (basic, final) or k+1 (improved)
QueryK(v, n, k) == IF v = "improved" THEN k + 1 ELSE Min2(k + 1, n)

\* the KDTree branch is taken
UsesKDTree(v, kd, n) ==
    /\ kd
    /\ v = "final" => n > 1

\* the build raises: query with k < 1, k = 1 (1-D result indexed [1:]),
\* k > N (missing neighbours are index N), or an empty array
KDCrashes(v, n, k) ==
    \/ n = 0
    \/ QueryK(v, n, k) <= 1
    \/ QueryK(v, n, k) > n

\* the edge sets build_edges can return; empty when it raises
BuildEdgesResults(v, kd, ns, k) ==
    IF v = "basic" /\ Len(ns) <= 1 THEN {{}}
    ELSE IF UsesKDTree(v, kd, Len(ns))
    THEN IF KDCrashes(v, Len(ns), k) THEN {}
         ELSE KDEdgeSets(ns, 1, QueryK(v, Len(ns), k))
    ELSE {NaiveEdges(ns, k)}

----------------------------------------------------------------------------
(* VisibilityPruner: prune_edges_by_walls / prune_edges_by_obstacles        *)

NodeById(ns, id) == ns[CHOOSE i \in DOMAIN ns : ns[i].id = id]

\* the segment test against the obstacles without their buffer
EdgeBlockedNoBuffer(ns, e, boxes, r) ==
    SegIntersects(NodeById(ns, e[1]), NodeById(ns, e[2]), boxes, 0)

\* seg.intersects(buffered): the edge's segment meets the buffered obstacles
EdgeBlocked(ns, e, boxes, r) ==
    SegIntersects(NodeById(ns, e[1]), NodeById(ns, e[2]), boxes, r)

\* "if not obstacle_union: return edges", else the edges that are not blocked
prune_edges(ns, es, boxes, r) ==
    IF boxes = {} THEN es
    ELSE {e \in es : ~EdgeBlocked(ns, e, boxes, r)}

\* the filter against the obstacles without their buffer
RemovePointsUnbuffered(points, boxes, r) ==
    SelectSeq(points, LAMBDA p : ~PointWithin(p, boxes, 0))

\* remove_points_in_obstacles: the points not within the buffered union
RECURSIVE remove_points_in_obstacles(_, _, _)
remove_points_in_obstacles(points, boxes, r) ==
    IF boxes = {} \/ points = <<>> THEN points
    ELSE LET rest == remove_points_in_obstacles(Tail(points), boxes, r)
         IN  IF PointWithin(Head(points), boxes, r) THEN rest
             ELSE <<Head(points)>> \o rest

----------------------------------------------------------------------------
(* PathQuery: nearest_node                                                  *)

\* bd = 1e9, the initial best distance of nearest_node (improved, final)
BD_INIT == 1000000000

\* a query abscissa farther than BD_INIT from every node
FarX == 2000000000

\* d < bd while bd is still its initial value; 1e12 (basic) exceeds every
\* distance of the model, and the offsets of the model are either below
\* the lattice size or at least BD_INIT along x
BelowInitial(v, dx, dy) ==
    v = "basic" \/ (Abs(dx) < BD_INIT /\ Abs(dy) < BD_INIT)

\* the scan: best is a position of ns, 0 for None
RECURSIVE NearestFrom(_, _, _, _, _, _)
NearestFrom(v, ns, i, best, x, y) ==
    IF i > Len(ns) THEN best
    ELSE LET dx == ns[i].x - x
             dy == ns[i].y - y
             closer == IF best = 0 THEN BelowInitial(v, dx, dy)
                       ELSE Hypot2(dx, dy) < Hypot2(ns[best].x - x, ns[best].y - y)
         IN  NearestFrom(v, ns, i + 1, IF closer THEN i ELSE best, x, y)

\* the id of the node nearest_node returns, NoNode for None
NoNode == 0

nearest_node(v, ns, x, y) ==
    LET best == NearestFrom(v, ns, 1, 0, x, y)
    IN  IF best = 0 THEN NoNode ELSE ns[best].id

----------------------------------------------------------------------------
(* PathQuery: build_nx_and_path (networkx.shortest_path, Dijkstra)          *)

\* edge weights are floats; the model keeps Scale fractional steps per unit
Scale == 100

\* floor(sqrt(n)) by bisection: lo*lo <= n < hi*hi
RECURSIVE ISqrtIn(_, _, _)
ISqrtIn(n, lo, hi) ==
    IF hi - lo <= 1 THEN lo
    ELSE LET mid == (lo + hi) \div 2
         IN  IF mid * mid <= n THEN ISqrtIn(n, mid, hi) ELSE ISqrtIn(n, lo, mid)

\* math.hypot(dx, dy) in steps of 1/Scale; the root is below |dx| + |dy| + 1
Hypot(dx, dy) ==
    ISqrtIn(Hypot2(dx, dy) * Scale * Scale, 0, Scale * (Abs(dx) + Abs(dy)) + 1)

\* a path search that counts hops instead of lengths
UnitWeight(ns, a, b) == Scale

\* w = math.hypot(na['x']-nb['x'], na['y']-nb['y'])
EdgeWeight(ns, a, b) ==
    Hypot(NodeById(ns, a).x - NodeById(ns, b).x, NodeById(ns, a).y - NodeById(ns, b).y)

\* G.add_edge(a, b): the graph is undirected
Adjacent(es, a, b) == <<a, b>> \in es \/ <<b, a>> \in es

\* Dijkstra from the settled set: dist is defined on the nodes reached so far
RECURSIVE DijkstraFrom(_, _, _, _)
DijkstraFrom(ns, es, settled, dist) ==
    LET open == DOMAIN dist \ settled
    IN  IF open = {} THEN dist
        ELSE LET u == CHOOSE v \in open : \A o \in open : dist[v] <= dist[o]
                 nbrs == {v \in NodeIds(ns) \ settled : v # u /\ Adjacent(es, u, v)}
                 better == {v \in nbrs :
                              v \notin DOMAIN dist
                                \/ dist[u] + EdgeWeight(ns, u, v) < dist[v]}
                 dist2 == [v \in DOMAIN dist \cup better |->
                             IF v \in better THEN dist[u] + EdgeWeight(ns, u, v)
                             ELSE dist[v]]
             IN  DijkstraFrom(ns, es, settled \cup {u}, dist2)

Dijkstra(ns, es, s) == DijkstraFrom(ns, es, {}, [v \in {s} |-> 0])

\* the paths from s to t along edges that are tight for dist
RECURSIVE TightPaths(_, _, _, _, _)
TightPaths(ns, es, dist, s, t) ==
    IF t = s THEN {<<s>>}
    ELSE UNION { {Append(p, t) : p \in TightPaths(ns, es, dist, s, u)}
                   : u \in {v \in DOMAIN dist :
                              /\ v # t
                              /\ Adjacent(es, v, t)
                              /\ dist[v] + EdgeWeight(ns, v, t) = dist[t]} }

\* "None": no path returned
NoPath == <<>>

\* the values build_nx_and_path can return: None without networkx, when an
\* id is not a node (NodeNotFound) or when no path exists (NetworkXNoPath),
\* else a minimum-weight path
build_nx_and_path(have_nx, ns, es, s, t) ==
    IF ~have_nx THEN {NoPath}
    ELSE IF s \notin NodeIds(ns) \/ t \notin NodeIds(ns) THEN {NoPath}
    ELSE LET dist == Dijkstra(ns, es, s)
         IN  IF t \notin DOMAIN dist THEN {NoPath}
             ELSE TightPaths(ns, es, dist, s, t)

----------------------------------------------------------------------------
(* Candidate construction                                                   *)

\* (float(t['x']), float(t['y']), {'label': t['text']}) for every text
LabeledPoints(ts) ==
    [i \in 1..Len(ts) |-> [x |-> ts[i].x, y |-> ts[i].y, label |-> ts[i].text]]

\* (x, y, None) for every grid sample
Unlabeled(grid) ==
    [i \in 1..Len(grid) |-> [x |-> grid[i].x, y |-> grid[i].y, label |-> None]]

\* svg_to_graph.py keeps positions in half pixels here, so that the
\* centroid x + w/2 of a rectangle is an integer
TextPositions(ts) ==
    [i \in 1..Len(ts) |-> [x |-> 2 * ts[i].x, y |-> 2 * ts[i].y, label |-> ts[i].text]]

RectCentroids(rs) ==
    [i \in 1..Len(rs) |->
        [x |-> 2 * rs[i].x + rs[i].w, y |-> 2 * rs[i].y + rs[i].h, label |-> None]]

\* "if key in seen: continue" on (round(x,2), round(y,2))
RECURSIVE KeyDedupe(_, _, _)
KeyDedupe(points, i, kept) ==
    IF i > Len(points) THEN kept
    ELSE KeyDedupe(points, i + 1,
                   IF \E j \in DOMAIN kept :
                        kept[j].x = points[i].x /\ kept[j].y = points[i].y
                   THEN kept ELSE Append(kept, points[i]))

\* extract_wall_polygons: the stroked rectangles, in half pixels
WallBoxes(rs) ==
    { [x0 |-> 2 * rs[i].x, y0 |-> 2 * rs[i].y,
       x1 |-> 2 * (rs[i].x + rs[i].w), y1 |-> 2 * (rs[i].y + rs[i].h)]
        : i \in {j \in DOMAIN rs : rs[j].stroke} }

\* rects_to_polygons / svg_rects_to_polygons
RectBoxes(rs) == {Box(rs[i]) : i \in DOMAIN rs}

----------------------------------------------------------------------------
(* Inputs                                                                   *)

Lattice(w, h) == {[x |-> x, y |-> y] : x \in 0..w, y \in 0..h}

\* labelled points lie on the top row of the canvas
TextsOn(w) == {[text |-> l, x |-> x, y |-> 0] : l \in Labels, x \in 0..w}

\* the text lists; the first text is labelled "A"
TextSeqs(w) ==
    { ts \in UNION { [1..n -> TextsOn(w)] : n \in TextCounts } :
        Len(ts) > 0 => ts[1].text = "A" }

\* at most one rectangle: a unit square of the canvas
RectSeqs(w, h, strokes) ==
    {<<>>} \cup { <<[x |-> x, y |-> y, w |-> 1, h |-> 1, stroke |-> st]>> :
                    x \in 0..(w - 1), y \in 0..(h - 1), st \in strokes }

DefaultCfg == [spacing |-> 1, margin |-> 0, min_dist |-> 1, k |-> 2, buffer |-> 1]

AllCfg == [spacing : SpacingSet, margin : MarginSet, min_dist : MinDistSet,
           k : KSet, buffer : BufferSet]

Differing(c) == Cardinality({f \in DOMAIN c : c[f] # DefaultCfg[f]})

CfgSet == {c \in AllCfg : Differing(c) <= 1}

Init ==
    /\ variant \in {"basic", "improved", "final"}
    /\ width \in 1..MaxW
    /\ HAVE_KDTREE \in (IF width \in KDWidths THEN BOOLEAN ELSE {FALSE})
    /\ HAVE_SHAPELY \in (IF variant = "final" THEN BOOLEAN ELSE {TRUE})
    /\ HAVE_NX \in (IF variant = "basic" THEN BOOLEAN ELSE {FALSE})
    /\ texts \in TextSeqs(width)
    /\ height \in (IF texts = <<>> THEN Heights ELSE {1})
    /\ rects \in RectSeqs(width, height,
                          IF variant = "basic" THEN BOOLEAN ELSE {TRUE})
    /\ cfg \in (IF variant = "basic"
                THEN {c \in CfgSet : \A f \in DOMAIN c \ {"k"} : c[f] = DefaultCfg[f]}
                ELSE CfgSet)
    /\ pc = "start"
    /\ combined = <<>>
    /\ pts = <<>>
    /\ obstacle_union = {}
    /\ nodes = <<>>
    /\ edges = {}
    /\ edges_pruned = {}
    /\ room_map = <<>>
    /\ query = [op |-> "none"]

----------------------------------------------------------------------------
(* The build pipelines (main of each script)                                *)

\* build_nodes with the grid samples put before the labelled points
BuildNodesGridFirst ==
    /\ pc = "start"
    /\ IF variant = "basic"
       THEN /\ combined' = TextPositions(texts) \o RectCentroids(rects)
            /\ pts' = KeyDedupe(combined', 1, <<>>)
            /\ nodes' = MakeNodes(pts')
            /\ pc' = "nodes"
       ELSE IF GridDiverges(width, height, cfg.spacing, cfg.margin, variant = "final")
       THEN /\ pc' = "diverged"
            /\ UNCHANGED <<combined, pts, nodes>>
       ELSE /\ combined' = Unlabeled(sample_grid(width, height, cfg.spacing,
                                                 cfg.margin, variant = "final"))
                   \o LabeledPoints(texts)
            /\ pts' = dedupe(combined', cfg.min_dist)
            /\ IF variant = "improved"
               THEN nodes' = MakeNodes(pts') /\ pc' = "nodes"
               ELSE nodes' = nodes /\ pc' = "built"
    /\ UNCHANGED <<env, obstacle_union, edges, edges_pruned, room_map, query>>

\* build_nodes (improved, final) / build_candidate_nodes (basic)
BuildNodes ==
    /\ pc = "start"
    /\ IF variant = "basic"
       THEN /\ combined' = TextPositions(texts) \o RectCentroids(rects)
            /\ pts' = KeyDedupe(combined', 1, <<>>)
            /\ nodes' = MakeNodes(pts')
            /\ pc' = "nodes"
       ELSE IF GridDiverges(width, height, cfg.spacing, cfg.margin, variant = "final")
       THEN /\ pc' = "diverged"
            /\ UNCHANGED <<combined, pts, nodes>>
       ELSE /\ combined' = LabeledPoints(texts)
                   \o Unlabeled(sample_grid(width, height, cfg.spacing, cfg.margin,
                                            variant = "final"))
            /\ pts' = dedupe(combined', cfg.min_dist)
            /\ IF variant = "improved"
               THEN nodes' = MakeNodes(pts') /\ pc' = "nodes"
               ELSE nodes' = nodes /\ pc' = "built"
    /\ UNCHANGED <<env, obstacle_union, edges, edges_pruned, room_map, query>>

\* final main: the obstacle union and remove_points_in_obstacles
RemovePoints ==
    /\ pc = "built"
    /\ obstacle_union' = IF HAVE_SHAPELY THEN RectBoxes(rects) ELSE {}
    /\ pts' = remove_points_in_obstacles(pts, obstacle_union', cfg.buffer)
    /\ pc' = "filtered"
    /\ UNCHANGED <<env, combined, nodes, edges, edges_pruned, room_map, query>>

\* final main: "build final node objects"
AssignIds ==
    /\ pc = "filtered"
    /\ nodes' = MakeNodes(pts)
    /\ pc' = "nodes"
    /\ UNCHANGED <<env, combined, pts, obstacle_union, edges, edges_pruned,
                   room_map, query>>

\* connect_knn / build_edges / build_edges_from_nodes
BuildEdges ==
    /\ pc = "nodes"
    /\ LET results == BuildEdgesResults(variant, HAVE_KDTREE, nodes, cfg.k)
       IN  IF results = {}
           THEN pc' = "crashed" /\ edges' = edges
           ELSE pc' = "edges" /\ edges' \in results
    /\ UNCHANGED <<env, combined, pts, obstacle_union, nodes, edges_pruned,
                   room_map, query>>

\* prune_edges_by_walls (basic, no buffer) / prune_edges_by_obstacles
PruneEdges ==
    /\ pc = "edges"
    /\ obstacle_union' = CASE variant = "basic" -> WallBoxes(rects)
                           [] variant = "improved" -> RectBoxes(rects)
                           [] OTHER -> obstacle_union
    /\ edges_pruned' = prune_edges(nodes, edges, obstacle_union',
                                   IF variant = "basic" THEN 0 ELSE cfg.buffer)
    /\ pc' = IF variant = "basic" THEN "done" ELSE "pruned"
    /\ UNCHANGED <<env, combined, pts, nodes, edges, room_map, query>>

\* a room map in which the first point of a label keeps its entry
RECURSIVE RoomMapKeepFirst(_, _, _, _, _)
RoomMapKeepFirst(v, ns, ts, i, m) ==
    IF i > Len(ts) THEN m
    ELSE LET n == nearest_node(v, ns, ts[i].x, ts[i].y)
         IN  RoomMapKeepFirst(v, ns, ts, i + 1,
                 IF n = NoNode \/ ts[i].text \in DOMAIN m THEN m
                 ELSE [l \in DOMAIN m \cup {ts[i].text} |->
                          IF l = ts[i].text THEN n ELSE m[l]])

\* room_map[t['text'].strip()] = nearest_node(nodes, t.x, t.y)['id']
RECURSIVE RoomMapFrom(_, _, _, _, _)
RoomMapFrom(v, ns, ts, i, m) ==
    IF i > Len(ts) THEN m
    ELSE LET n == nearest_node(v, ns, ts[i].x, ts[i].y)
         IN  RoomMapFrom(v, ns, ts, i + 1,
                 IF n = NoNode THEN m
                 ELSE [l \in DOMAIN m \cup {ts[i].text} |->
                          IF l = ts[i].text THEN n ELSE m[l]])

BuildRoomMap ==
    /\ pc = "pruned"
    /\ room_map' = RoomMapFrom(variant, nodes, texts, 1, <<>>)
    /\ pc' = "done"
    /\ UNCHANGED <<env, combined, pts, obstacle_union, nodes, edges, edges_pruned,
                   query>>

----------------------------------------------------------------------------
(* Queries on the built graph                                               *)

\* query coordinates: the canvas lattice (half pixels for basic) and, for
\* the scripts whose initial best distance is BD_INIT, one far point
QueryPoints ==
    IF variant = "basic"
    THEN {[x |-> 2 * p.x, y |-> 2 * p.y] : p \in Lattice(width, height)}
    ELSE Lattice(width, height) \cup {[x |-> FarX, y |-> 0]}

NearestNode ==
    /\ pc = "done"
    /\ query.op = "none"
    /\ \E q \in QueryPoints :
          query' = [op |-> "nearest_node", x |-> q.x, y |-> q.y,
                    result |-> nearest_node(variant, nodes, q.x, q.y)]
    /\ UNCHANGED <<env, pc, combined, pts, obstacle_union, nodes, edges,
                   edges_pruned, room_map>>

ShortestPath ==
    /\ pc = "done"
    /\ query.op = "none"
    /\ variant = "basic"
    /\ \E s \in 1..(Len(nodes) + 1), t \in 1..(Len(nodes) + 1) :
         \E r \in build_nx_and_path(HAVE_NX, nodes, edges_pruned, s, t) :
            query' = [op |-> "shortest_path", s |-> s, t |-> t, result |-> r]
    /\ UNCHANGED <<env, pc, combined, pts, obstacle_union, nodes, edges,
                   edges_pruned, room_map>>

Next ==
    \/ BuildNodes
    \/ RemovePoints
    \/ AssignIds
    \/ BuildEdges
    \/ PruneEdges
    \/ BuildRoomMap
    \/ NearestNode
    \/ ShortestPath

Spec == Init /\ [][Next]_vars

----------------------------------------------------------------------------
(* Properties                                                               *)

\* the elements of s at the positions A, in increasing position
SubSeqAt(s, A) ==
    [n \in 1..Cardinality(A) |->
        s[CHOOSE i \in A : Cardinality({j \in A : j <= i}) = n]]

\* Euclidean distance of p and q strictly below d
CloserThan(p, q, d) == d > 0 /\ Dist2(p, q) < d * d

\* the deduplicated candidates are still held in pts
DedupeDone ==
    \/ variant = "final" /\ pc = "built"
    \/ variant = "improved" /\ pc \notin {"start", "diverged"}

\* C1: the output of dedupe is the subsequence of the candidates at the
\* positions A, where a position is outside A exactly when its candidate is
\* strictly closer than min_node_distance to a candidate at an earlier
\* position of A (distance exactly min_node_distance is accepted).
C1_DedupeGreedy ==
    DedupeDone =>
        \E A \in SUBSET (DOMAIN combined) :
            /\ \A j \in DOMAIN combined :
                  j \notin A <=>
                     \E i \in A : i < j /\ CloserThan(combined[i], combined[j],
                                                       cfg.min_dist)
            /\ pts = SubSeqAt(combined, A)

\* a candidate was rejected and two accepted ones are exactly min_dist apart
C1_Witness ==
    /\ DedupeDone
    /\ Len(pts) < Len(combined)
    /\ cfg.min_dist > 0
    /\ \E i, j \in DOMAIN pts : Dist2(pts[i], pts[j]) = Sq(cfg.min_dist)

\* a graph has been built by a script that deduplicates by distance
BuiltByDistance ==
    variant \in {"improved", "final"} /\ pc \in {"nodes", "edges", "pruned", "done"}

\* C2: in a built graph two distinct nodes are at least min_node_distance
\* apart, unless both carry different labels at the same coordinate.
C2_NodeSpacing ==
    BuiltByDistance =>
        \A i, j \in DOMAIN nodes :
            i # j =>
                \/ ~CloserThan(nodes[i], nodes[j], cfg.min_dist)
                \/ /\ nodes[i].label # None /\ nodes[j].label # None
                   /\ nodes[i].label # nodes[j].label
                   /\ nodes[i].x = nodes[j].x /\ nodes[i].y = nodes[j].y

\* a final graph after a rejection by distance and an obstacle filtering
C2_Witness ==
    /\ variant = "final" /\ pc = "done"
    /\ cfg.min_dist > 0
    /\ Len(nodes) >= 2
    /\ Len(dedupe(combined, cfg.min_dist)) < Len(combined)
    /\ Len(nodes) < Len(dedupe(combined, cfg.min_dist))

\* the buffer the pruner of each script applies
PruneBuffer == IF variant = "basic" THEN 0 ELSE cfg.buffer

\* the segment of edge e meets the obstacle region handed to the pruner
Crosses(e) ==
    \E i, j \in DOMAIN nodes :
        /\ nodes[i].id = e[1] /\ nodes[j].id = e[2]
        /\ SegIntersects(nodes[i], nodes[j], obstacle_union, PruneBuffer)

\* C3: the pruned edges are exactly the candidate edges whose segment does
\* not meet the buffered obstacle region; nothing is added, and without
\* obstacles the candidate edges come back unchanged.
C3_PruneExact ==
    pc \in {"pruned", "done"} =>
        /\ edges_pruned \subseteq edges
        /\ \A e \in edges : e \in edges_pruned <=> ~Crosses(e)
        /\ obstacle_union = {} => edges_pruned = edges

\* a pruning that dropped some edges and kept others
C3_Witness ==
    /\ pc = "pruned"
    /\ obstacle_union # {}
    /\ edges_pruned # {}
    /\ edges_pruned # edges

\* the obstacles of the source and the buffer of the configuration
SuppliedBoxes == IF variant = "basic" THEN WallBoxes(rects) ELSE RectBoxes(rects)

\* C4 as stated: after a build with a non-empty obstacle list no node lies
\* inside the buffered obstacle region.
C4_Original ==
    (pc = "done" /\ SuppliedBoxes # {}) =>
        \A i \in DOMAIN nodes : ~PointWithin(nodes[i], SuppliedBoxes, PruneBuffer)

\* C4 amended: in svg_to_graph_final with shapely and a non-empty obstacle
\* list, no point that survives the filter, and so no node, lies within the
\* obstacle union buffered by obstacle_buffer.
C4_FinalFiltered ==
    (/\ variant = "final" /\ HAVE_SHAPELY /\ rects # <<>>
     /\ pc \in {"filtered", "nodes", "edges", "pruned", "done"}) =>
        /\ \A i \in DOMAIN pts :
              \A b \in RectBoxes(rects) : ~PointWithinBox(pts[i], b, cfg.buffer)
        /\ \A i \in DOMAIN nodes :
              \A b \in RectBoxes(rects) : ~PointWithinBox(nodes[i], b, cfg.buffer)
        /\ pc # "filtered" => Len(nodes) = Len(pts)

\* a final build whose filter removed a candidate and left others
C4_Witness ==
    /\ variant = "final" /\ HAVE_SHAPELY /\ rects # <<>>
    /\ pc = "done"
    /\ Len(nodes) > 0
    /\ Len(nodes) < Len(dedupe(combined, cfg.min_dist))

\* C5: every edge, before and after pruning, joins two different ids of the
\* node sequence, and no unordered pair occurs twice.
EdgesWellFormed(es) ==
    /\ \A e \in es : e[1] # e[2] /\ e[1] \in NodeIds(nodes) /\ e[2] \in NodeIds(nodes)
    /\ \A e, f \in es : {e[1], e[2]} = {f[1], f[2]} => e = f

C5_EdgesWellFormed ==
    pc \in {"edges", "pruned", "done"} =>
        EdgesWellFormed(edges) /\ EdgesWellFormed(edges_pruned)

\* a graph whose pruning kept some edges and dropped others
C5_Witness ==
    /\ pc = "done"
    /\ edges_pruned # {}
    /\ edges_pruned # edges
    /\ \E e, f \in edges : e[1] = f[2]

\* position b is among the k nearest other nodes of position a, equal
\* distances taken in ascending position
AmongKNearest(a, b, k) ==
    Cardinality({c \in DOMAIN nodes \ {a} :
                    \/ Dist2(nodes[a], nodes[c]) < Dist2(nodes[a], nodes[b])
                    \/ /\ Dist2(nodes[a], nodes[c]) = Dist2(nodes[a], nodes[b])
                       /\ c < b}) < k

KnnExact ==
    \A a, b \in DOMAIN nodes :
        a # b =>
            ((<<nodes[a].id, nodes[b].id>> \in edges
                \/ <<nodes[b].id, nodes[a].id>> \in edges)
             <=> (AmongKNearest(a, b, cfg.k) \/ AmongKNearest(b, a, cfg.k)))

\* C6: for 1 <= k < N the candidate edges join A and B exactly when one is
\* among the other's k nearest nodes, ties taken in ascending node order.
C6_KnnExact ==
    (pc = "edges" /\ 1 <= cfg.k /\ cfg.k < Len(nodes)) => KnnExact

\* the same for the builds that take the naive branch
KnnExactNaive ==
    (/\ pc = "edges" /\ 1 <= cfg.k /\ cfg.k < Len(nodes)
     /\ ~UsesKDTree(variant, HAVE_KDTREE, Len(nodes))) => KnnExact

\* the simple paths from s to t that avoid the ids in seen
RECURSIVE SimplePaths(_, _, _, _)
SimplePaths(es, s, t, seen) ==
    IF s = t THEN {<<t>>}
    ELSE UNION { {<<s>> \o p : p \in SimplePaths(es, v, t, seen \cup {s})}
                   : v \in {u \in NodeIds(nodes) \ (seen \cup {s}) : Adjacent(es, s, u)} }

\* the summed Euclidean length of a path of ids, in steps of 1/Scale
RECURSIVE PathLength(_)
PathLength(p) ==
    IF Len(p) <= 1 THEN 0
    ELSE Hypot(NodeById(nodes, p[1]).x - NodeById(nodes, p[2]).x,
               NodeById(nodes, p[1]).y - NodeById(nodes, p[2]).y)
         + PathLength(Tail(p))

PathsOfQuery ==
    IF query.s \in NodeIds(nodes) /\ query.t \in NodeIds(nodes)
    THEN SimplePaths(edges_pruned, query.s, query.t, {})
    ELSE {}

\* the result is a simple path of the graph from s to t of minimal length
MinimalPath(r) ==
    /\ r # NoPath
    /\ r[1] = query.s /\ r[Len(r)] = query.t
    /\ \A i, j \in DOMAIN r : i # j => r[i] # r[j]
    /\ \A i \in 1..(Len(r) - 1) : Adjacent(edges_pruned, r[i], r[i + 1])
    /\ \A p \in PathsOfQuery : PathLength(r) <= PathLength(p)

\* C7: whenever a path exists between the two nodes, shortest_path returns a
\* simple path of the graph from start_id to end_id whose summed Euclidean
\* length is the minimum over all paths.
C7_PathMinimal ==
    (query.op = "shortest_path" /\ PathsOfQuery # {}) => MinimalPath(query.result)

\* the same for the runs in which networkx is importable
PathMinimalWithNx ==
    (query.op = "shortest_path" /\ HAVE_NX /\ PathsOfQuery # {})
        => MinimalPath(query.result)

\* C8: shortest_path returns NotReachable exactly when an id is absent or
\* the two nodes are not connected, and for no other reason.
C8_NotReachableIffDisconnected ==
    query.op = "shortest_path" => (query.result = NoPath <=> PathsOfQuery = {})

\* the same for the runs in which networkx is importable
NotReachableWithNx ==
    (query.op = "shortest_path" /\ HAVE_NX)
        => (query.result = NoPath <=> PathsOfQuery = {})

\* the result is a nearest node of the query point, the first of the nearest
NearestOfQuery ==
    /\ query.result # NoNode
    /\ \E i \in DOMAIN nodes :
          /\ nodes[i].id = query.result
          /\ \A j \in DOMAIN nodes :
                LET di == Hypot2(nodes[i].x - query.x, nodes[i].y - query.y)
                    dj == Hypot2(nodes[j].x - query.x, nodes[j].y - query.y)
                IN  di <= dj /\ (di = dj => nodes[i].id <= nodes[j].id)

\* C9: on a graph with a node, nearest_node returns for every query point a
\* node at minimal distance, the one with the lowest id among several.
C9_NearestNode ==
    (query.op = "nearest_node" /\ Len(nodes) >= 1) => NearestOfQuery

\* the same for the query points closer than BD_INIT to a node
NearestWithinInitial ==
    (query.op = "nearest_node" /\ Len(nodes) >= 1 /\ query.x < BD_INIT)
        => NearestOfQuery

\* non-positive grid_spacing, negative k_neighbors or a negative distance
InvalidConfig ==
    \/ cfg.spacing <= 0
    \/ cfg.k < 0
    \/ cfg.min_dist < 0
    \/ cfg.buffer < 0
    \/ cfg.margin < 0

\* C10: a build with an invalid configuration is rejected before sampling
\* begins and yields no nodes and no edges.
C10_InvalidConfigRejected ==
    InvalidConfig =>
        /\ pc = "start"
        /\ combined = <<>> /\ nodes = <<>> /\ edges = {} /\ edges_pruned = {}

\* an invalid configuration never yields a finished graph
InvalidConfigNoGraph == InvalidConfig => pc # "done"

----------------------------------------------------------------------------
(* The point sampler                                                        *)

\* the coordinates margin + i*spacing, i >= 0, up to and including limit
ClosedAxis(margin, limit, spacing) ==
    {v \in margin..limit : (v - margin) % spacing = 0}

ClosedGrid ==
    {[x |-> x, y |-> y, label |-> None] :
        x \in ClosedAxis(cfg.margin, width - cfg.margin, cfg.spacing),
        y \in ClosedAxis(cfg.margin, height - cfg.margin, cfg.spacing)}

RowMajorBefore(p, q) == p.y < q.y \/ (p.y = q.y /\ p.x < q.x)

\* the candidates are the labelled points in source order, then the points
\* of the closed grid in row-major order
SampledClosedGrid ==
    LET n == Len(texts)
    IN  /\ Len(combined) = n + Cardinality(ClosedGrid)
        /\ \A i \in 1..n :
              combined[i] = [x |-> texts[i].x, y |-> texts[i].y,
                             label |-> texts[i].text]
        /\ {combined[i] : i \in (n + 1)..Len(combined)} = ClosedGrid
        /\ \A i, j \in (n + 1)..Len(combined) :
              i < j => RowMajorBefore(combined[i], combined[j])

\* the sampler has run
Sampled == variant # "basic" /\ pc \notin {"start", "diverged"}

\* C11: the candidate sequence is every labelled point in source order
\* followed by the grid points margin + i*spacing on the closed intervals
\* [margin, width - margin] x [margin, height - margin], in row-major order.
C11_ClosedGrid == (Sampled /\ cfg.spacing > 0) => SampledClosedGrid

\* the same for svg_to_graph_final alone
ClosedGridFinal ==
    (Sampled /\ variant = "final" /\ cfg.spacing > 0) => SampledClosedGrid

\* the canvas is no wider or no higher than twice the margin
SmallCanvas ==
    width - 2 * cfg.margin <= 0 \/ height - 2 * cfg.margin <= 0

StrictlySmallCanvas ==
    width - 2 * cfg.margin < 0 \/ height - 2 * cfg.margin < 0

\* nothing was sampled, nothing was built and no stage failed
EmptyBuild ==
    /\ pc \notin {"crashed", "diverged"}
    /\ combined = <<>> /\ pts = <<>> /\ nodes = <<>>
    /\ edges = {} /\ edges_pruned = {}

\* C12: with no labelled point and width - 2*margin <= 0 or
\* height - 2*margin <= 0 the grid is empty and the build runs through
\* every stage without error to a graph of zero nodes and zero edges.
C12_EmptyBuild ==
    (variant # "basic" /\ texts = <<>> /\ SmallCanvas /\ ~InvalidConfig)
        => EmptyBuild

\* the same for canvases strictly smaller than twice the margin, built
\* without the k-d tree of svg_to_graph_improved
EmptyBuildStrict ==
    (/\ variant # "basic" /\ texts = <<>> /\ StrictlySmallCanvas
     /\ ~InvalidConfig
     /\ ~(variant = "improved" /\ HAVE_KDTREE))
        => EmptyBuild

\* svg_to_graph_final alone: the equality case
EmptyBuildFinal ==
    (variant = "final" /\ texts = <<>> /\ SmallCanvas /\ ~InvalidConfig)
        => EmptyBuild

\* svg_to_graph_improved alone: the k-d tree on zero nodes
EmptyBuildImproved ==
    (variant = "improved" /\ texts = <<>> /\ SmallCanvas /\ ~InvalidConfig)
        => EmptyBuild

----------------------------------------------------------------------------
(* Queries on a graph without nodes                                         *)

\* C13: on a graph with zero nodes shortest_path and nearest_node report an
\* outcome of their own, which is neither NotReachable nor the outcome of a
\* query on a graph with nodes, and building the zero-node graph is no error.
C13_EmptyGraphOutcome ==
    /\ (query.op = "shortest_path" /\ nodes = <<>>) => query.result # NoPath
    /\ query.op = "nearest_node" => (query.result = NoNode <=> nodes = <<>>)
    /\ (pc = "crashed" /\ ~InvalidConfig) => nodes # <<>>

\* nearest_node on a graph with zero nodes returns None and no node
NearestOnEmpty ==
    (query.op = "nearest_node" /\ nodes = <<>>) => query.result = NoNode

----------------------------------------------------------------------------
(* Node identifiers                                                         *)

\* the stages at which the nodes carry their ids
AfterIds == {"nodes", "edges", "pruned", "done", "crashed"}

\* the k-th surviving candidate is the node with id k, labelled ones first
IdsSequential ==
    IF pc \in AfterIds
    THEN /\ Len(nodes) = Len(pts)
         /\ \A i \in DOMAIN nodes :
               /\ nodes[i].id = i
               /\ nodes[i].x = pts[i].x /\ nodes[i].y = pts[i].y
               /\ nodes[i].label = pts[i].label
         /\ \A i, j \in DOMAIN nodes :
               (i < j /\ nodes[j].label # None) => nodes[i].label # None
    ELSE nodes = <<>>

IdsDistinct ==
    \A i, j \in DOMAIN nodes : i # j => nodes[i].id # nodes[j].id

\* a step taken after the ids were assigned leaves every node as it is
IdsFixed == pc \in AfterIds => nodes' = nodes

----------------------------------------------------------------------------
(* The label-to-node mapping                                                *)

\* the id of the node nearest to the i-th labelled point, the lowest id
\* among several nearest
NearestIdOfText(i) ==
    LET d(k) == Hypot2(nodes[k].x - texts[i].x, nodes[k].y - texts[i].y)
    IN  nodes[CHOOSE k \in DOMAIN nodes :
                 \A j \in DOMAIN nodes : d(k) < d(j) \/ (d(k) = d(j) /\ k <= j)].id

\* the nodes that stand for the i-th labelled point
NodesOfText(i) ==
    {k \in DOMAIN nodes :
        /\ nodes[k].x = texts[i].x /\ nodes[k].y = texts[i].y
        /\ nodes[k].label = texts[i].text}

\* no later labelled point bears the label of the i-th
LastOfLabel(i) ==
    \A j \in DOMAIN texts : j > i => texts[j].text # texts[i].text

RoomMapBuilt == pc = "done" /\ variant # "basic"

----------------------------------------------------------------------------
(* Totality of the proximity graph builder                                  *)

Degree(id) == Cardinality({e \in edges : e[1] = id \/ e[2] = id})

Joined(a, b) == <<a, b>> \in edges \/ <<b, a>> \in edges

\* the candidate edges for N nodes and k >= 0: none for N <= 1, all pairs
\* for k >= N, and at least min(k, N-1) at every node
KnnTotal ==
    /\ pc # "crashed"
    /\ pc = "edges" =>
          /\ Len(nodes) <= 1 => edges = {}
          /\ cfg.k >= Len(nodes) =>
                \A a, b \in NodeIds(nodes) : a # b => Joined(a, b)
          /\ \A a \in NodeIds(nodes) :
                Degree(a) >= Min2(cfg.k, Len(nodes) - 1)

\* C16: for every N >= 0 and every k >= 0 the builder completes without
\* error, returns no edge when N <= 1, joins every pair when k >= N and
\* gives every node at least min(k, N-1) candidate edges.
C16_KnnTotal == ~InvalidConfig => KnnTotal

\* the same for the builds that take the naive branch
KnnTotalNaive ==
    (~InvalidConfig /\ ~HAVE_KDTREE) => KnnTotal

----------------------------------------------------------------------------
(* Labelled points in deduplication                                         *)

\* the positions of the labelled candidates
LabeledAt == {i \in DOMAIN combined : combined[i].label # None}

IsLabeled(p) == p.label # None

\* C17: the labelled points kept by dedupe are those at the positions A,
\* where a labelled candidate is outside A exactly when it is closer than
\* min_node_distance to an earlier labelled candidate of A; and no kept grid
\* point is closer than min_node_distance to a kept labelled point.
C17_LabeledWin ==
    DedupeDone =>
        /\ \E A \in SUBSET LabeledAt :
              /\ \A j \in LabeledAt :
                    j \notin A <=>
                       \E i \in A : i < j /\ CloserThan(combined[i], combined[j],
                                                         cfg.min_dist)
              /\ SelectSeq(pts, IsLabeled) = SubSeqAt(combined, A)
        /\ \A i, j \in DOMAIN pts :
              (IsLabeled(pts[i]) /\ ~IsLabeled(pts[j]))
                  => ~CloserThan(pts[i], pts[j], cfg.min_dist)

\* a labelled point was rejected for an earlier labelled one, and a grid
\* candidate closer than min_node_distance to the kept one was sampled
C17_Witness ==
    /\ DedupeDone
    /\ Len(texts) = 2
    /\ Len(SelectSeq(pts, IsLabeled)) = 1
    /\ \E j \in DOMAIN combined \ LabeledAt :
          CloserThan(pts[1], combined[j], cfg.min_dist)

====
